---- MODULE Spec2Model ----
(***************************************************************************)
(* Model of libfin: calculate_rsi, calculate_ema and calculate_macd of     *)
(* src/lib.rs.                                                             *)
(*                                                                         *)
(* f64 values are modelled as extended rationals [n, d] in lowest terms:   *)
(* d > 0 is the finite value n/d, [1,0] and [-1,0] are +/-infinity and     *)
(* [0,0] is NaN.  Rounding and the sign of zero are not modelled.          *)
(* usize subtraction depends on the build: with overflow checks it panics  *)
(* on underflow, without them it wraps; the wrapped value only ever flows  *)
(* into an ndarray slice bound, where it is cast to isize, so it is kept   *)
(* here as the (negative) signed difference.  Subtracting arrays of        *)
(* different length depends on the ndarray version (see ArraySub).  Both   *)
(* build choices are taken nondeterministically by each call.              *)
(***************************************************************************)
EXTENDS Integers, Sequences, FiniteSets, TLC

VARIABLES prices, pc, call, result, macd_result, ema_calls

vars == <<prices, pc, call, result, macd_result, ema_calls>>

\* ---------------------------------------------------------------- bounds
MaxLen == 4
MaxPrice == 1
MaxWindow == 4

PriceVals == 0..MaxPrice
Windows == 0..MaxWindow

\* the price array the unit tests use
TestPrices == <<1, 2, 3, 4, 5>>

\* ------------------------------------------------------------ f64 values
Abs(x) == IF x < 0 THEN -x ELSE x

Sgn(x) == IF x < 0 THEN -1 ELSE IF x > 0 THEN 1 ELSE 0

RECURSIVE Gcd(_, _)
Gcd(a, b) == IF b = 0 THEN a ELSE Gcd(b, a % b)

F(n, d) ==
  IF d = 0 THEN [n |-> Sgn(n), d |-> 0]
  ELSE LET g == Gcd(Abs(n), Abs(d))
       IN  [n |-> (Sgn(d) * n) \div g, d |-> Abs(d) \div g]

NaN == [n |-> 0, d |-> 0]

INFINITY == [n |-> 1, d |-> 0]

FromInt(k) == [n |-> k, d |-> 1]

IsNaN(a) == a.d = 0 /\ a.n = 0

fneg(a) == [n |-> -a.n, d |-> a.d]

fadd(a, b) ==
  IF IsNaN(a) \/ IsNaN(b) THEN NaN
  ELSE IF a.d = 0 /\ b.d = 0 THEN (IF a.n = b.n THEN a ELSE NaN)
  ELSE IF a.d = 0 THEN a
  ELSE IF b.d = 0 THEN b
  ELSE LET g == Gcd(a.d, b.d)
       IN  F(a.n * (b.d \div g) + b.n * (a.d \div g), (a.d \div g) * b.d)

fsub(a, b) == fadd(a, fneg(b))

fmul(a, b) ==
  IF IsNaN(a) \/ IsNaN(b) THEN NaN
  ELSE IF a.d = 0 \/ b.d = 0 THEN F(Sgn(a.n) * Sgn(b.n), 0)
  ELSE LET x == F(a.n, b.d)
           y == F(b.n, a.d)
       IN  F(x.n * y.n, x.d * y.d)

fdiv(a, b) ==
  IF IsNaN(a) \/ IsNaN(b) THEN NaN
  ELSE IF a.d = 0 /\ b.d = 0 THEN NaN
  ELSE IF a.d = 0 THEN F(a.n * (IF b.n < 0 THEN -1 ELSE 1), 0)
  ELSE IF b.d = 0 THEN FromInt(0)
  ELSE IF b.n = 0 THEN F(a.n, 0)
  ELSE fmul(a, F(b.d, b.n))

\* x > 0.0 and x < 0.0 (false for NaN)
fgt0(a) == a.n > 0

flt0(a) == a.n < 0

\* a <= b (false when either is NaN)
fle(a, b) ==
  /\ ~IsNaN(a)
  /\ ~IsNaN(b)
  /\ IF a.d = 0 THEN (a.n < 0 \/ a = b)
     ELSE IF b.d = 0 THEN b.n > 0
     ELSE a.n * b.d <= b.n * a.d

\* ---------------------------------------------------------- ndarray ops
\* an array from its element function, as a sequence value
arr1(f) == SubSeq(f, 1, Len(f))

ToF64(s) == arr1([k \in 1..Len(s) |-> FromInt(s[k])])

RECURSIVE sum(_)
sum(a) == IF Len(a) = 0 THEN FromInt(0) ELSE fadd(a[1], sum(Tail(a)))

\* a.slice(s![..end]), end a usize
SliceTo(a, end) ==
  IF end > Len(a) THEN [panic |-> TRUE]
  ELSE [panic |-> FALSE, arr |-> SubSeq(a, 1, end)]

\* a.slice(s![start..]), start an isize: negative counts from the back
SliceFrom(a, start) ==
  LET abs == IF start < 0 THEN Len(a) + start ELSE start
  IN  IF abs < 0 \/ abs > Len(a) THEN [panic |-> TRUE]
      ELSE [panic |-> FALSE, arr |-> SubSeq(a, abs + 1, Len(a))]

\* a - b with usize operands
usize_sub(a, b, overflow_checks) ==
  IF a < b /\ overflow_checks THEN [panic |-> TRUE]
  ELSE [panic |-> FALSE, val |-> a - b]

\* lhs - rhs on one-dimensional arrays.  Equal shapes subtract pointwise.
\* Otherwise ndarray >= 0.15 broadcasts both operands to a common shape and
\* older versions broadcast rhs to the shape of lhs; either panics when the
\* shapes are incompatible.
ArraySub(lhs, rhs, co_broadcast) ==
  IF Len(lhs) = Len(rhs)
  THEN [panic |-> FALSE,
        arr |-> arr1([k \in 1..Len(lhs) |-> fsub(lhs[k], rhs[k])])]
  ELSE IF Len(rhs) = 1
  THEN [panic |-> FALSE,
        arr |-> arr1([k \in 1..Len(lhs) |-> fsub(lhs[k], rhs[1])])]
  ELSE IF Len(lhs) = 1 /\ co_broadcast
  THEN [panic |-> FALSE,
        arr |-> arr1([k \in 1..Len(rhs) |-> fsub(lhs[1], rhs[k])])]
  ELSE [panic |-> TRUE]

\* ------------------------------------------------------------- results
NotEnoughData(msg) == [kind |-> "NotEnoughData", msg |-> msg]

Err(e) == [status |-> "Err", error |-> e]

Ok(v) == [status |-> "Ok", value |-> v]

Panic == [status |-> "Panic"]

RsiMsg == "Not enough data points to caluclate RSI"

\* (the backquotes around prices and window in the source text are left out)
EmaMsg == "prices must have at least window items"

\* ------------------------------------------------------- calculate_ema
\* faulty variant: the length check is off by one
ema_not_enough_off(len, window) == len + 1 < window

ema_not_enough(len, window) == len < window

ema_smoothing(window) == fdiv(FromInt(2), fadd(FromInt(window), FromInt(1)))

\* faulty variant: the seed divides by window + 1
ema_seed_off(p, window) == fdiv(sum(SubSeq(p, 1, window)), FromInt(window + 1))

ema_seed(p, window) == fdiv(sum(SubSeq(p, 1, window)), FromInt(window))

ema_step(current_price, prev_ema, smoothing) ==
  fadd(fmul(fsub(current_price, prev_ema), smoothing), prev_ema)

\* faulty variant: every value is derived from the seed, not from the previous value
RECURSIVE ema_loop_seed(_, _, _, _, _)
ema_loop_seed(p, window, smoothing, i, ema_values) ==
  IF i >= Len(p) THEN ema_values
  ELSE LET current_price == p[i + 1]
           prev_ema == ema_values[1]
           ema == ema_step(current_price, prev_ema, smoothing)
       IN  ema_loop_seed(p, window, smoothing, i + 1, Append(ema_values, ema))

\* the loop `for i in window..prices.len()`; i is the 0-based price index
RECURSIVE ema_loop(_, _, _, _, _)
ema_loop(p, window, smoothing, i, ema_values) ==
  IF i >= Len(p) THEN ema_values
  ELSE LET current_price == p[i + 1]
           prev_ema == ema_values[i - window + 1]
           ema == ema_step(current_price, prev_ema, smoothing)
       IN  ema_loop(p, window, smoothing, i + 1, Append(ema_values, ema))

\* p is a sequence of f64 values
calculate_ema(p, window) ==
  IF ema_not_enough(Len(p), window) THEN Err(NotEnoughData(EmaMsg))
  ELSE LET smoothing == ema_smoothing(window)
           head == SliceTo(p, window)
       IN  IF head.panic THEN Panic
           ELSE Ok(ema_loop(p, window, smoothing, window,
                            <<ema_seed(head.arr, window)>>))

\* ------------------------------------------------------- calculate_rsi
\* faulty variant: the length check of calculate_ema
rsi_not_enough_lt(len, window) == len < window

rsi_not_enough(len, window) == len <= window

\* prices.slice(s![1..]) - prices.slice(s![..-1])
price_changes(p) == arr1([k \in 1..(Len(p) - 1) |-> fsub(p[k + 1], p[k])])

\* faulty variant: negative changes are kept as gains
gain_unclipped(x) == x

gain(x) == IF fgt0(x) THEN x ELSE FromInt(0)

loss(x) == IF flt0(x) THEN fneg(x) ELSE FromInt(0)

\* price_changes.mapv(...) with the gains and the losses closure
gains_of(changes) == arr1([k \in 1..Len(changes) |-> gain(changes[k])])

losses_of(changes) == arr1([k \in 1..Len(changes) |-> loss(changes[k])])

rsi_seed(a, window) == fdiv(sum(a), FromInt(window))

\* faulty variant: the previous average is weighted by window
wilder_full(avg, current, window) ==
  fdiv(fadd(fmul(avg, FromInt(window)), current), FromInt(window))

\* ((avg * (window - 1) as f64) + current) / window as f64
wilder(avg, current, window) ==
  fdiv(fadd(fmul(avg, FromInt(window - 1)), current), FromInt(window))

\* faulty variant: a zero average loss gives RS = 0
rs_of_zero(avg_gain, avg_loss) ==
  IF fgt0(avg_loss) THEN fdiv(avg_gain, avg_loss) ELSE FromInt(0)

rs_of(avg_gain, avg_loss) ==
  IF fgt0(avg_loss) THEN fdiv(avg_gain, avg_loss) ELSE INFINITY

rsi_of(rs) ==
  fsub(FromInt(100), fdiv(FromInt(100), fadd(FromInt(1), rs)))

\* the loop `for i in window..prices.len()`; i is the 0-based price index.
\* gains[i - 1] panics for i = 0 in every build: on the subtraction with
\* overflow checks, on the out-of-bounds index without them.
RECURSIVE rsi_loop(_, _, _, _, _, _, _, _, _)
rsi_loop(n, gains, losses, window, i, avg_gain, avg_loss, rsi_values, overflow_checks) ==
  IF i >= n THEN Ok(rsi_values)
  ELSE LET idx == usize_sub(i, 1, overflow_checks)
       IN  IF idx.panic THEN Panic
           ELSE IF idx.val < 0 \/ idx.val >= Len(gains) THEN Panic
           ELSE LET current_gain == gains[idx.val + 1]
                    current_loss == losses[idx.val + 1]
                    g == wilder(avg_gain, current_gain, window)
                    l == wilder(avg_loss, current_loss, window)
                    rsi == rsi_of(rs_of(g, l))
                IN  rsi_loop(n, gains, losses, window, i + 1, g, l,
                             Append(rsi_values, rsi), overflow_checks)

calculate_rsi(p, window, overflow_checks) ==
  IF rsi_not_enough(Len(p), window) THEN Err(NotEnoughData(RsiMsg))
  ELSE LET changes == price_changes(p)
           gains == gains_of(changes)
           losses == losses_of(changes)
           gs == SliceTo(gains, window)
           ls == SliceTo(losses, window)
       IN  IF gs.panic \/ ls.panic THEN Panic
           ELSE rsi_loop(Len(p), gains, losses, window, window,
                         rsi_seed(gs.arr, window), rsi_seed(ls.arr, window),
                         <<>>, overflow_checks)

\* ------------------------------------------------------ calculate_macd
\* faulty variant: ema_short is not aligned
align_start_none(short_window, long_window, overflow_checks) ==
  [panic |-> FALSE, val |-> 0]

\* the start of s![long_window - short_window..]
align_start(short_window, long_window, overflow_checks) ==
  usize_sub(long_window, short_window, overflow_checks)

\* the start of s![macd_line.len() - signal_line.len()..]
trim_start(macd_len, signal_len, overflow_checks) ==
  usize_sub(macd_len, signal_len, overflow_checks)

\* ret is the value returned (or Panic), ema_calls the number of
\* calculate_ema calls that were made
MacdRet(ret, n) == [ret |-> ret, ema_calls |-> n]

macd_finish(macd_line, signal_line, overflow_checks, co_broadcast) ==
  LET start == trim_start(Len(macd_line), Len(signal_line), overflow_checks)
  IN  IF start.panic THEN Panic
      ELSE LET trimmed == SliceFrom(macd_line, start.val)
           IN  IF trimmed.panic THEN Panic
               ELSE LET histogram ==
                          ArraySub(trimmed.arr, signal_line, co_broadcast)
                    IN  IF histogram.panic THEN Panic
                        ELSE Ok(<<trimmed.arr, signal_line, histogram.arr>>)

macd_signal(ema_short, ema_long, signal_window, overflow_checks, co_broadcast) ==
  LET macd_line == ArraySub(ema_short, ema_long, co_broadcast)
  IN  IF macd_line.panic THEN MacdRet(Panic, 2)
      ELSE LET signal_line == calculate_ema(macd_line.arr, signal_window)
           IN  IF signal_line.status # "Ok" THEN MacdRet(signal_line, 3)
               ELSE MacdRet(macd_finish(macd_line.arr, signal_line.value,
                                        overflow_checks, co_broadcast), 3)

calculate_macd(p, short_window, long_window, signal_window, overflow_checks, co_broadcast) ==
  LET ema_short == calculate_ema(p, short_window)
  IN  IF ema_short.status # "Ok" THEN MacdRet(ema_short, 1)
      ELSE LET ema_long == calculate_ema(p, long_window)
           IN  IF ema_long.status # "Ok" THEN MacdRet(ema_long, 2)
               ELSE LET start == align_start(short_window, long_window,
                                             overflow_checks)
                    IN  IF start.panic THEN MacdRet(Panic, 2)
                        ELSE LET aligned == SliceFrom(ema_short.value, start.val)
                             IN  IF aligned.panic THEN MacdRet(Panic, 2)
                                 ELSE macd_signal(aligned.arr, ema_long.value,
                                                  signal_window,
                                                  overflow_checks, co_broadcast)

\* ------------------------------------------------------- state machine
RECURSIVE SeqsOfLen(_)
SeqsOfLen(k) ==
  IF k = 0 THEN {<<>>}
  ELSE {Append(s, v) : s \in SeqsOfLen(k - 1), v \in PriceVals}

PriceSeqs == UNION {SeqsOfLen(k) : k \in 0..MaxLen}

Init ==
  /\ prices \in PriceSeqs \cup {TestPrices}
  /\ pc = "idle"
  /\ call = [fn |-> "none"]
  /\ result = [status |-> "None"]
  /\ macd_result = [status |-> "None"]
  /\ ema_calls = 0

CalculateRsi ==
  /\ pc = "idle"
  /\ \E window \in Windows, overflow_checks \in BOOLEAN :
       /\ call' = [fn |-> "rsi", window |-> window]
       /\ result' = calculate_rsi(ToF64(prices), window, overflow_checks)
  /\ pc' = "done"
  /\ UNCHANGED <<prices, macd_result, ema_calls>>

CalculateEma ==
  /\ pc = "idle"
  /\ \E window \in Windows :
       /\ call' = [fn |-> "ema", window |-> window]
       /\ result' = calculate_ema(ToF64(prices), window)
  /\ pc' = "done"
  /\ UNCHANGED <<prices, macd_result, ema_calls>>

CalculateMacd ==
  /\ pc = "idle"
  /\ \E short_window \in Windows, long_window \in Windows,
        signal_window \in Windows,
        overflow_checks \in BOOLEAN, co_broadcast \in BOOLEAN :
       LET r == calculate_macd(ToF64(prices), short_window, long_window,
                               signal_window, overflow_checks, co_broadcast)
       IN  /\ call' = [fn |-> "macd", short_window |-> short_window,
                       long_window |-> long_window,
                       signal_window |-> signal_window]
           /\ macd_result' = r.ret
           /\ ema_calls' = r.ema_calls
  /\ pc' = "done"
  /\ UNCHANGED <<prices, result>>

Next == CalculateRsi \/ CalculateEma \/ CalculateMacd

Spec == Init /\ [][Next]_vars

\* ------------------------------------------------------------- claims
Done(fn) == pc = "done" /\ call.fn = fn

IsNotEnoughData(r) == r.status = "Err" /\ r.error.kind = "NotEnoughData"

\* C1: calculate_ema returns Err(NotEnoughData) exactly when
\* len(prices) < window and calculate_rsi exactly when len(prices) <= window;
\* the error is then the whole result: no output sequence, no panic.
C1_NotEnoughDataExactly ==
  /\ Done("ema") =>
       /\ IsNotEnoughData(result) <=> Len(prices) < call.window
       /\ Len(prices) < call.window => result = Err(NotEnoughData(EmaMsg))
  /\ Done("rsi") =>
       /\ IsNotEnoughData(result) <=> Len(prices) <= call.window
       /\ Len(prices) <= call.window => result = Err(NotEnoughData(RsiMsg))

C1_Witness ==
  /\ Done("rsi")
  /\ Len(prices) = call.window
  /\ call.window >= 1
  /\ result = Err(NotEnoughData(RsiMsg))

\* the mean of the first w values of the integer sequence s
RECURSIVE IntSum(_, _)
IntSum(s, w) == IF w = 0 THEN 0 ELSE s[w] + IntSum(s, w - 1)

MeanRef(s, w) == F(IntSum(s, w), w)

\* e[k] of the reference recurrence, k the 0-based output index
RECURSIVE EmaRef(_, _, _)
EmaRef(s, w, k) ==
  IF k = 0 THEN MeanRef(s, w)
  ELSE LET prev == EmaRef(s, w, k - 1)
           alpha == F(2, w + 1)
       IN  fadd(fmul(fsub(FromInt(s[k + w]), prev), alpha), prev)

\* C2: for len(prices) >= window >= 1 the result of calculate_ema is the
\* sequence e with e[0] the mean of the first window prices and
\* e[i-window+1] = (prices[i] - e[i-window]) * alpha + e[i-window],
\* alpha = 2/(window+1), for every price index i from window on.
C2_EmaRecurrence ==
  (Done("ema") /\ call.window >= 1 /\ Len(prices) >= call.window) =>
    /\ result.status = "Ok"
    /\ DOMAIN result.value = 1..(Len(prices) - call.window + 1)
    /\ \A k \in 0..(Len(prices) - call.window) :
         result.value[k + 1] = EmaRef(prices, call.window, k)

C2_Witness ==
  /\ Done("ema")
  /\ prices = TestPrices
  /\ call.window = 3
  /\ result = Ok(<<FromInt(2), FromInt(3), FromInt(4)>>)

\* C9: for len(prices) >= window calculate_ema returns exactly
\* len(prices) - window + 1 values and the first one is the arithmetic mean
\* of the first window prices (for window = 0 that mean is 0/0, NaN).
C9_EmaLengthAndSeed ==
  (Done("ema") /\ Len(prices) >= call.window) =>
    /\ result.status = "Ok"
    /\ Len(result.value) = Len(prices) - call.window + 1
    /\ result.value[1] = MeanRef(prices, call.window)

C9_Witness ==
  /\ Done("ema")
  /\ call.window = 2
  /\ Len(prices) = 4
  /\ result.status = "Ok"
  /\ Len(result.value) = 3
  /\ result.value[1] = F(1, 2)

\* C3: for len(prices) > window >= 1 every value calculate_rsi returns
\* lies in [0, 100].
C3_RsiRange ==
  (Done("rsi") /\ call.window >= 1 /\ Len(prices) > call.window) =>
    /\ result.status = "Ok"
    /\ \A k \in DOMAIN result.value :
         /\ fle(FromInt(0), result.value[k])
         /\ fle(result.value[k], FromInt(100))

C3_Witness ==
  /\ Done("rsi")
  /\ call.window >= 1
  /\ result.status = "Ok"
  /\ \E k \in DOMAIN result.value :
       /\ result.value[k] # FromInt(0)
       /\ result.value[k] # FromInt(100)
       /\ fle(FromInt(0), result.value[k])
       /\ fle(result.value[k], FromInt(100))

NonDecreasing(s) == \A k \in 1..(Len(s) - 1) : s[k] <= s[k + 1]

\* C4: for non-decreasing prices with len(prices) > window >= 1 every value
\* calculate_rsi returns is exactly 100.
C4_RsiNoLossIs100 ==
  (Done("rsi") /\ call.window >= 1 /\ Len(prices) > call.window
     /\ NonDecreasing(prices)) =>
    /\ result.status = "Ok"
    /\ Len(result.value) >= 1
    /\ \A k \in DOMAIN result.value : result.value[k] = FromInt(100)

C4_Witness ==
  /\ Done("rsi")
  /\ prices = TestPrices
  /\ call.window = 3
  /\ result = Ok(<<FromInt(100), FromInt(100)>>)

\* delta[j], gains[j], losses[j] for the 0-based index j
DeltaRef(s, j) == s[j + 2] - s[j + 1]

GainRef(s, j) == IF DeltaRef(s, j) > 0 THEN DeltaRef(s, j) ELSE 0

LossRef(s, j) == IF -DeltaRef(s, j) > 0 THEN -DeltaRef(s, j) ELSE 0

RECURSIVE GainSum(_, _)
GainSum(s, w) == IF w = 0 THEN 0 ELSE GainRef(s, w - 1) + GainSum(s, w - 1)

RECURSIVE LossSum(_, _)
LossSum(s, w) == IF w = 0 THEN 0 ELSE LossRef(s, w - 1) + LossSum(s, w - 1)

\* the average gain after the update made for price index i (i >= w);
\* i = w - 1 stands for the seed
RECURSIVE AvgGainRef(_, _, _)
AvgGainRef(s, w, i) ==
  IF i = w - 1 THEN F(GainSum(s, w), w)
  ELSE fdiv(fadd(fmul(AvgGainRef(s, w, i - 1), FromInt(w - 1)),
                 FromInt(GainRef(s, i - 1))), FromInt(w))

RECURSIVE AvgLossRef(_, _, _)
AvgLossRef(s, w, i) ==
  IF i = w - 1 THEN F(LossSum(s, w), w)
  ELSE fdiv(fadd(fmul(AvgLossRef(s, w, i - 1), FromInt(w - 1)),
                 FromInt(LossRef(s, i - 1))), FromInt(w))

RsiRef(s, w, i) ==
  LET g == AvgGainRef(s, w, i)
      l == AvgLossRef(s, w, i)
  IN  IF l.n > 0
      THEN fsub(FromInt(100),
                fdiv(FromInt(100), fadd(FromInt(1), fdiv(g, l))))
      ELSE FromInt(100)

\* C10: for len(prices) > window >= 1 calculate_rsi returns exactly
\* len(prices) - window values, the one for price index i being
\* 100 - 100/(1 + avg_gain/avg_loss) (100 when avg_loss is not positive),
\* where the averages are seeded with the means of the first window gains
\* and losses and updated, before each output, as
\* (avg*(window-1) + current)/window with current = gains[i-1], losses[i-1].
C10_RsiReference ==
  (Done("rsi") /\ call.window >= 1 /\ Len(prices) > call.window) =>
    /\ result.status = "Ok"
    /\ DOMAIN result.value = 1..(Len(prices) - call.window)
    /\ \A i \in call.window..(Len(prices) - 1) :
         result.value[i - call.window + 1] = RsiRef(prices, call.window, i)

C10_Witness ==
  /\ Done("rsi")
  /\ prices = <<1, 0, 1, 0>>
  /\ call.window = 2
  /\ result = Ok(<<FromInt(75), F(75, 2)>>)

\* the tuple (macd_line, signal_line, histogram) of a successful call
MacdLine(r) == r.value[1]

SignalLine(r) == r.value[2]

Histogram(r) == r.value[3]

\* C5: every call of calculate_macd, also one with
\* short_window > long_window, ends with Ok and three output sequences or
\* with Err(NotEnoughData); it never panics.
C5_MacdNeverPanics ==
  Done("macd") =>
    \/ IsNotEnoughData(macd_result)
    \/ /\ macd_result.status = "Ok"
       /\ DOMAIN macd_result.value = 1..3

\* C6: the three sequences of every successful calculate_macd call have
\* the same length.
C6_MacdEqualLengths ==
  (Done("macd") /\ macd_result.status = "Ok") =>
    /\ Len(MacdLine(macd_result)) = Len(SignalLine(macd_result))
    /\ Len(Histogram(macd_result)) = Len(SignalLine(macd_result))

\* M[k] = S[k + (long - short)] - L[k] for the 0-based index k, S and L the
\* reference EMAs of the short and the long window
MacdRef(s, short, long) ==
  LET M == [k \in 1..(Len(s) - long + 1) |->
              fsub(EmaRef(s, short, k - 1 + (long - short)),
                   EmaRef(s, long, k - 1))]
  IN  SubSeq(M, 1, Len(M))

\* C7: for 1 <= short_window <= long_window and signal_window >= 1 a
\* successful calculate_macd returns signal_line = EMA(M, signal_window),
\* macd_line[i] = M[i + len(M) - len(signal_line)] and
\* histogram[i] = macd_line[i] - signal_line[i], with
\* M[k] = S[k + (long_window - short_window)] - L[k].
C7_MacdComposition ==
  (Done("macd") /\ macd_result.status = "Ok"
     /\ 1 <= call.short_window /\ call.short_window <= call.long_window
     /\ call.signal_window >= 1) =>
    LET M == MacdRef(prices, call.short_window, call.long_window)
        sig == calculate_ema(M, call.signal_window)
    IN  /\ sig.status = "Ok"
        /\ SignalLine(macd_result) = sig.value
        /\ DOMAIN MacdLine(macd_result) = DOMAIN sig.value
        /\ DOMAIN Histogram(macd_result) = DOMAIN sig.value
        /\ \A i \in DOMAIN sig.value :
             /\ MacdLine(macd_result)[i] = M[i + Len(M) - Len(sig.value)]
             /\ Histogram(macd_result)[i] =
                  fsub(MacdLine(macd_result)[i], SignalLine(macd_result)[i])

C7_Witness ==
  /\ Done("macd")
  /\ prices = TestPrices
  /\ call.short_window = 2
  /\ call.long_window = 4
  /\ call.signal_window = 2
  /\ macd_result = Ok(<<<<FromInt(1)>>, <<FromInt(1)>>, <<FromInt(0)>>>>)

\* the internal calculate_ema call (1 short, 2 long, 3 signal) that is the
\* first to lack data
FirstFailing(len, short, long, signal) ==
  IF len < short THEN 1 ELSE IF len < long THEN 2 ELSE 3

\* C8: for 1 <= short_window <= long_window calculate_macd returns
\* Err(NotEnoughData), and nothing else, whenever len(prices) < short_window
\* or len(prices) < long_window or len(prices) - long_window + 1 <
\* signal_window; the error is the one of the first failing calculate_ema
\* call, and no later call is made.
C8_MacdNotEnoughData ==
  (Done("macd")
     /\ 1 <= call.short_window /\ call.short_window <= call.long_window
     /\ \/ Len(prices) < call.short_window
        \/ Len(prices) < call.long_window
        \/ Len(prices) - call.long_window + 1 < call.signal_window) =>
    /\ macd_result = Err(NotEnoughData(EmaMsg))
    /\ ema_calls = FirstFailing(Len(prices), call.short_window,
                                call.long_window, call.signal_window)

C8_Witness ==
  /\ Done("macd")
  /\ call.short_window = 1
  /\ call.long_window = 2
  /\ call.signal_window = 4
  /\ Len(prices) = 4
  /\ macd_result = Err(NotEnoughData(EmaMsg))
  /\ ema_calls = 3
====
